---- MODULE Spec2Model ----
(***************************************************************************)
(* Model of notebooks/qm9_data_prep.ipynb: the QM9 structure-file parser   *)
(* (parse_float, count_rings_and_bonds, parse_xyz), the parsing loop over  *)
(* the xyz directory, and the regular-expression SMILES tokenizer.         *)
(*                                                                         *)
(* Strings are sequences of one-character strings, so that parsing and     *)
(* tokenizing are computed character by character as the code does.        *)
(* A call that raises is the record [ok |-> FALSE, err |-> <exception>],   *)
(* a call that returns is [ok |-> TRUE, val |-> <value>].                  *)
(***************************************************************************)
EXTENDS Integers, Sequences, FiniteSets, Bags, TLC

VARIABLES
    pc,              \* control state of the cell or call being run
    smi,             \* smi_tokenizer: its argument
    tokens,          \* smi_tokenizer: its outcome
    s,               \* parse_float: its argument
    parsed_float,    \* parse_float: its outcome
    mol,             \* count_rings_and_bonds: the molecule (SSSR rings, bonds)
    max_ring_size,   \* count_rings_and_bonds / parse_xyz: the max_ring_size argument
    counts,          \* count_rings_and_bonds: its outcome
    filename,        \* parse_xyz: the content of the file it is given
    npscorer_model,  \* parse_xyz: the scoring model argument, or None
    empty_mol_ok,    \* the toolkit build: do the descriptor scorers accept an empty molecule
    result,          \* parse_xyz: its outcome
    xyz_dir,         \* parsing loop: the directory, the files' contents in sorted name order
    order,           \* parsing loop: the order in which a second pass visits the files
    file_idx,        \* parsing loop: the number of files already visited
    parsed_xyz,      \* parsing loop: the list of records
    qm9_df,          \* the table built from parsed_xyz, or None
    pass1_df         \* the table of the first pass, kept for the comparison of two orders

vars == <<pc, smi, tokens, s, parsed_float, mol, max_ring_size, counts, filename,
          npscorer_model, empty_mol_ok, result, xyz_dir, order, file_idx,
          parsed_xyz, qm9_df, pass1_df>>

tokVars   == <<smi, tokens>>
floatVars == <<s, parsed_float>>
molVars   == <<mol, counts>>
xyzVars   == <<filename, result>>
loopVars  == <<xyz_dir, order, file_idx, parsed_xyz, qm9_df, pass1_df>>

None == "None"

Returned(v) == [ok |-> TRUE, val |-> v]
Raised(e)   == [ok |-> FALSE, err |-> e]

Min(a, b) == IF a < b THEN a ELSE b

\* All sequences over S of length at most n.
SeqsUpTo(S, n) == UNION {[1..k -> S] : k \in 0..n}

RECURSIVE Flatten(_)
\* ''.join(tokens)
Flatten(ts) == IF ts = <<>> THEN <<>> ELSE Head(ts) \o Flatten(Tail(ts))

Digits == {"0", "1", "2", "3", "4", "5", "6", "7", "8", "9"}

(***************************************************************************)
(* smi_tokenizer                                                           *)
(***************************************************************************)

\* The one-character alternatives of the pattern, other than B, C and the digits.
OneCharTokens ==
    {"N", "O", "S", "P", "F", "I", "b", "c", "n", "o", "s", "p", "(", ")", ".",
     "=", "#", "-", "+", "\\", "/", ":", "~", "@", "?", ">", "*", "$"}

\* \[[^\]]+] tried at position i: the length matched, 0 when it does not match.
\* [^\]]+ takes every character up to the first "]", and needs at least one.
BracketLen(str, i) ==
    LET closes == {j \in (i + 1)..Len(str) : str[j] = "]"}
    IN  IF str[i] # "[" \/ closes = {} THEN 0
        ELSE LET j == CHOOSE k \in closes : \A m \in closes : k <= m
             IN  IF j >= i + 2 THEN j - i + 1 ELSE 0

\* Br? and Cl?: the letter, and the second letter when it follows (greedy "?").
HalogenLen(str, i, first, second) ==
    IF str[i] # first THEN 0
    ELSE IF i + 1 <= Len(str) /\ str[i + 1] = second THEN 2 ELSE 1

\* \%[0-9]{2}
PercentLen(str, i) ==
    IF /\ str[i] = "%"
       /\ i + 2 <= Len(str)
       /\ str[i + 1] \in Digits
       /\ str[i + 2] \in Digits
    THEN 3 ELSE 0

\* A faulty variant: the pattern with C tried before Cl (and B before Br), so the
\* two-letter halogens never match as one token.
MatchLenHalogenFirstLetter(str, i) ==
    IF BracketLen(str, i) > 0 THEN BracketLen(str, i)
    ELSE IF str[i] \in {"B", "C"} THEN 1
    ELSE IF str[i] \in OneCharTokens THEN 1
    ELSE IF PercentLen(str, i) > 0 THEN 3
    ELSE IF str[i] \in Digits THEN 1
    ELSE 0

\* The pattern tried at position i: the length of the first alternative, in
\* pattern order, that matches there; 0 when none does.
MatchLen(str, i) ==
    IF BracketLen(str, i) > 0 THEN BracketLen(str, i)
    ELSE IF HalogenLen(str, i, "B", "r") > 0 THEN HalogenLen(str, i, "B", "r")
    ELSE IF HalogenLen(str, i, "C", "l") > 0 THEN HalogenLen(str, i, "C", "l")
    ELSE IF str[i] \in OneCharTokens THEN 1
    ELSE IF PercentLen(str, i) > 0 THEN 3
    ELSE IF str[i] \in Digits THEN 1
    ELSE 0

RECURSIVE FindAllFrom(_, _)
\* regex.findall(smi) from position i on: the non-overlapping matches, left to
\* right; a position where nothing matches is skipped.
FindAllFrom(str, i) ==
    IF i > Len(str) THEN <<>>
    ELSE LET n == MatchLen(str, i)
         IN  IF n = 0 THEN FindAllFrom(str, i + 1)
             ELSE <<SubSeq(str, i, i + n - 1)>> \o FindAllFrom(str, i + n)

\* A faulty variant: the tokenizer without its assertion.
smi_tokenizer_no_assert(str) == Returned(FindAllFrom(str, 1))

smi_tokenizer(str) ==
    LET toks == FindAllFrom(str, 1)
    IN  IF str = Flatten(toks) THEN Returned(toks) ELSE Raised("AssertionError")

\* Bounds and inputs of the tokenizer's specification.
MaxSmiLen == 4
SmiChars == {"C", "l", "B", "r", "[", "]", "%", "1", "c", "a"}
CCO == <<"C", "C", "O">>
Benzene == <<"c", "1", "c", "c", "c", "c", "c", "1">>
SmiInputs == SeqsUpTo(SmiChars, MaxSmiLen) \cup {CCO, Benzene}

InitTok ==
    /\ pc = "tokenize"
    /\ smi \in SmiInputs
    /\ tokens = None
    /\ s = None /\ parsed_float = None
    /\ mol = None /\ max_ring_size = -1 /\ counts = None
    /\ filename = None /\ npscorer_model = None /\ empty_mol_ok = FALSE /\ result = None
    /\ xyz_dir = <<>> /\ order = <<>> /\ file_idx = 0 /\ parsed_xyz = <<>>
    /\ qm9_df = None /\ pass1_df = None

CallSmiTokenizer ==
    /\ pc = "tokenize"
    /\ tokens' = smi_tokenizer(smi)
    /\ pc' = IF tokens'.ok THEN "returned" ELSE "raised"
    /\ UNCHANGED <<smi, floatVars, molVars, max_ring_size, xyzVars, npscorer_model,
                   empty_mol_ok, loopVars>>

NextTok == CallSmiTokenizer

SpecTok == InitTok /\ [][NextTok]_vars

(***************************************************************************)
(* Claims about smi_tokenizer (checked under SpecTok)                      *)
(***************************************************************************)

\* A whole string that is one token of the grammar: the pattern read as a
\* description of the token language, not as the scanning procedure.
IsBracketAtom(t) ==
    /\ Len(t) >= 3
    /\ t[1] = "["
    /\ t[Len(t)] = "]"
    /\ \A k \in 2..(Len(t) - 1) : t[k] # "]"

IsPercentToken(t) ==
    Len(t) = 3 /\ t[1] = "%" /\ t[2] \in Digits /\ t[3] \in Digits

IsToken(t) ==
    \/ IsBracketAtom(t)
    \/ t \in {<<"B">>, <<"B", "r">>, <<"C">>, <<"C", "l">>}
    \/ Len(t) = 1 /\ t[1] \in OneCharTokens \cup Digits
    \/ IsPercentToken(t)

RECURSIVE OverGrammar(_)
\* str is a concatenation of tokens of the grammar.
OverGrammar(str) ==
    \/ str = <<>>
    \/ \E k \in 1..Len(str) :
          IsToken(SubSeq(str, 1, k)) /\ OverGrammar(SubSeq(str, k + 1, Len(str)))

\* C4: smi_tokenizer either returns tokens whose concatenation is its input or
\* raises; it raises only when the input is not a string over the grammar.
C4_RoundTripOrError ==
    pc \in {"returned", "raised"} =>
        /\ tokens.ok => Flatten(tokens.val) = smi
        /\ OverGrammar(smi) => tokens.ok
        /\ ~tokens.ok => tokens.err = "AssertionError"

\* C4 witnesses: an input over the grammar tokenized back to itself in more than
\* one token, one of them of several characters.
C4_Witness ==
    /\ pc = "returned"
    /\ Len(tokens.val) >= 2
    /\ \E k \in 1..Len(tokens.val) : Len(tokens.val[k]) >= 2
    /\ Flatten(tokens.val) = smi

\* C5: the tokens are those of the grammar, taken left to right with the first
\* matching alternative: a bracketed atom, Br, Cl and %dd are single tokens,
\* everything else is one character; CCO and c1ccccc1 split as stated.
C5_TokensOfGrammar ==
    pc \in {"returned", "raised"} =>
        /\ tokens.ok =>
              /\ \A k \in 1..Len(tokens.val) :
                    LET t == tokens.val[k]
                    IN  /\ IsToken(t)
                        /\ Len(t) > 1 =>
                              \/ IsBracketAtom(t)
                              \/ IsPercentToken(t)
                              \/ t \in {<<"B", "r">>, <<"C", "l">>}
              \* Br? and Cl? are greedy: B or C alone is never followed by r or l
              /\ \A k \in 1..(Len(tokens.val) - 1) :
                    /\ tokens.val[k] = <<"C">> => tokens.val[k + 1][1] # "l"
                    /\ tokens.val[k] = <<"B">> => tokens.val[k + 1][1] # "r"
        /\ smi = <<"C", "l">> => tokens = Returned(<< <<"C", "l">> >>)
        /\ smi = <<"B", "r">> => tokens = Returned(<< <<"B", "r">> >>)
        /\ smi = <<"[", "C", "l", "]">> => tokens = Returned(<< smi >>)
        /\ smi = <<"%", "1", "1">> => tokens = Returned(<< smi >>)
        /\ smi = <<"C", "%", "1", "1">> => tokens = Returned(<< <<"C">>, <<"%", "1", "1">> >>)
        /\ smi = CCO => tokens = Returned(<< <<"C">>, <<"C">>, <<"O">> >>)
        /\ smi = Benzene =>
              tokens = Returned(<< <<"c">>, <<"1">>, <<"c">>, <<"c">>, <<"c">>, <<"c">>,
                                   <<"c">>, <<"1">> >>)

\* C5 witness: c1ccccc1 tokenized into its 8 tokens.
C5_Witness ==
    pc = "returned" /\ smi = Benzene /\ Len(tokens.val) = 8


(***************************************************************************)
(* parse_float                                                             *)
(*                                                                         *)
(* A float is modelled by its exact decimal value [m |-> mantissa,         *)
(* e |-> exponent], meaning m * 10^e, normalised so that m has no trailing *)
(* zero (and zero is [m |-> 0, e |-> 0]): two strings denote the same      *)
(* float exactly when their normalised values are equal.                   *)
(***************************************************************************)

DigitVal(c) ==
    CASE c = "0" -> 0 [] c = "1" -> 1 [] c = "2" -> 2 [] c = "3" -> 3 [] c = "4" -> 4
      [] c = "5" -> 5 [] c = "6" -> 6 [] c = "7" -> 7 [] c = "8" -> 8 [] c = "9" -> 9

RECURSIVE DigitsVal(_)
DigitsVal(ds) ==
    IF ds = <<>> THEN 0
    ELSE 10 * DigitsVal(SubSeq(ds, 1, Len(ds) - 1)) + DigitVal(ds[Len(ds)])

AllDigits(ds) == \A k \in 1..Len(ds) : ds[k] \in Digits

RECURSIVE Norm(_, _)
Norm(m, e) ==
    IF m = 0 THEN [m |-> 0, e |-> 0]
    ELSE IF m % 10 = 0 THEN Norm(m \div 10, e + 1)
    ELSE [m |-> m, e |-> e]

\* The first position of character c in str, 0 when it does not occur.
IndexOf(str, cs) ==
    LET at == {k \in 1..Len(str) : str[k] \in cs}
    IN  IF at = {} THEN 0 ELSE CHOOSE k \in at : \A j \in at : k <= j

\* A signed run of digits (an exponent, or the argument of int()).
SignedDigits(str) ==
    LET signed == str # <<>> /\ str[1] \in {"+", "-"}
        ds     == IF signed THEN Tail(str) ELSE str
    IN  IF ds = <<>> \/ ~AllDigits(ds) THEN Raised("ValueError")
        ELSE Returned(IF signed /\ str[1] = "-" THEN 0 - DigitsVal(ds) ELSE DigitsVal(ds))

\* float(str) for a string without blanks, underscores, inf or nan:
\* [sign] (digits [. [digits]] | . digits) [(e|E) [sign] digits]
float(str) ==
    LET signed == str # <<>> /\ str[1] \in {"+", "-"}
        body   == IF signed THEN Tail(str) ELSE str
        epos   == IndexOf(body, {"e", "E"})
        mant   == IF epos = 0 THEN body ELSE SubSeq(body, 1, epos - 1)
        expo   == IF epos = 0 THEN Returned(0)
                  ELSE SignedDigits(SubSeq(body, epos + 1, Len(body)))
        dot    == IndexOf(mant, {"."})
        ipart  == IF dot = 0 THEN mant ELSE SubSeq(mant, 1, dot - 1)
        fpart  == IF dot = 0 THEN <<>> ELSE SubSeq(mant, dot + 1, Len(mant))
    IN  IF \/ ~expo.ok
           \/ ~AllDigits(ipart) \/ ~AllDigits(fpart)
           \/ ipart \o fpart = <<>>
        THEN Raised("ValueError")
        ELSE LET mag == DigitsVal(ipart \o fpart)
             IN  Returned(Norm(IF signed /\ str[1] = "-" THEN 0 - mag ELSE mag,
                               expo.val - Len(fpart)))

RECURSIVE Split(_, _, _)
\* str.split(sep) for the two-character separator <<c1, c2>>.
Split(str, c1, c2) ==
    LET at == {k \in 1..(Len(str) - 1) : str[k] = c1 /\ str[k + 1] = c2}
    IN  IF at = {} THEN <<str>>
        ELSE LET k == CHOOSE i \in at : \A j \in at : i <= j
             IN  <<SubSeq(str, 1, k - 1)>> \o Split(SubSeq(str, k + 2, Len(str)), c1, c2)

\* The largest power of ten a double holds: 10**x raises OverflowError above it.
MaxDoubleExp10 == 308

\* The float is a whole number.
IsWhole(v) == v.e >= 0

RECURSIVE Pow10(_)
Pow10(n) == IF n = 0 THEN 1 ELSE 10 * Pow10(n - 1)

\* 10**power overflows a double (power a whole number).
PowerOverflows(p) == p.m > 0 /\ (p.e >= 3 \/ p.m * Pow10(p.e) > MaxDoubleExp10)

\* base * 10**power. A power that is not a whole number gives an irrational
\* factor, kept symbolically.
TimesPow10(b, p) ==
    IF IsWhole(p) THEN Norm(b.m, b.e + p.m * Pow10(p.e))
    ELSE [m |-> b.m, e |-> b.e, pow |-> p]

\* A faulty variant: standard parsing only, without the fallback on the marker.
parse_float_std_only(str) == float(str)

parse_float(str) ==
    IF float(str).ok THEN float(str)
    ELSE LET parts == Split(str, "*", "^")
         IN  IF Len(parts) # 2 THEN Raised("ValueError")
             ELSE LET base  == float(parts[1])
                      power == float(parts[2])
                  IN  IF ~base.ok \/ ~power.ok THEN Raised("ValueError")
                      ELSE IF IsWhole(power.val) /\ PowerOverflows(power.val)
                           THEN Raised("OverflowError")
                      ELSE Returned(TimesPow10(base.val, power.val))

\* Bounds and inputs of parse_float's specification.
MaxFloatLen == 4
FloatChars == {"1", "5", ".", "-", "*", "^", "e"}
Str_5_0 == <<"5", ".", "0">>
Str_1_23_m4 == <<"1", ".", "2", "3", "*", "^", "-", "4">>
Str_1_23_e_m4 == <<"1", ".", "2", "3", "e", "-", "4">>
FloatExamples ==
    {Str_5_0, Str_1_23_m4, Str_1_23_e_m4,
     <<"1", "*", "^", "9", "9", "9">>,
     <<"1", "*", "^", "2", "*", "^", "3">>,
     <<"2", "*", "^", "0", ".", "5">>,
     <<"2", ".", "5", "*", "^", "1", "e", "1">>}
FloatInputs == SeqsUpTo(FloatChars, MaxFloatLen) \cup FloatExamples

InitFloat ==
    /\ pc = "parse_float"
    /\ s \in FloatInputs
    /\ parsed_float = None
    /\ smi = None /\ tokens = None
    /\ mol = None /\ max_ring_size = -1 /\ counts = None
    /\ filename = None /\ npscorer_model = None /\ empty_mol_ok = FALSE /\ result = None
    /\ xyz_dir = <<>> /\ order = <<>> /\ file_idx = 0 /\ parsed_xyz = <<>>
    /\ qm9_df = None /\ pass1_df = None

CallParseFloat ==
    /\ pc = "parse_float"
    /\ parsed_float' = parse_float(s)
    /\ pc' = IF parsed_float'.ok THEN "returned" ELSE "raised"
    /\ UNCHANGED <<s, tokVars, molVars, max_ring_size, xyzVars, npscorer_model,
                   empty_mol_ok, loopVars>>

NextFloat == CallParseFloat

SpecFloat == InitFloat /\ [][NextFloat]_vars

(***************************************************************************)
(* Claims about parse_float (checked under SpecFloat)                      *)
(***************************************************************************)

\* str is a standard float literal: the grammar as a predicate.
IsStdFloat(str) ==
    \E sg \in {0, 1} :
        /\ sg = 1 => (str # <<>> /\ str[1] \in {"+", "-"})
        /\ \E x \in (sg + 1)..(Len(str) + 1) :
              \* the mantissa is str[sg+1 .. x-1], the exponent part str[x ..]
              LET mant == SubSeq(str, sg + 1, x - 1)
                  rest == SubSeq(str, x, Len(str))
                  nd   == Cardinality({k \in 1..Len(mant) : mant[k] = "."})
              IN  /\ \A k \in 1..Len(mant) : mant[k] \in Digits \cup {"."}
                  /\ nd <= 1
                  /\ Len(mant) > nd
                  /\ \/ rest = <<>>
                     \/ /\ Len(rest) >= 2
                        /\ rest[1] \in {"e", "E"}
                        /\ LET ex == IF rest[2] \in {"+", "-"}
                                     THEN SubSeq(rest, 3, Len(rest)) ELSE Tail(rest)
                           IN  ex # <<>> /\ AllDigits(ex)

\* str is base*^exponent with base and exponent standard float literals.
MarkerSplits(str) ==
    {k \in 1..(Len(str) - 1) :
        /\ str[k] = "*" /\ str[k + 1] = "^"
        /\ IsStdFloat(SubSeq(str, 1, k - 1))
        /\ IsStdFloat(SubSeq(str, k + 2, Len(str)))}

BondTypes == {"SINGLE", "DOUBLE", "TRIPLE", "AROMATIC", "DATIVE"}

RECURSIVE CountRingSizes(_, _)
\* The loop over ssr: a missing key is created at 0, then incremented.
CountRingSizes(ssr, ring_sizes) ==
    IF ssr = <<>> THEN ring_sizes
    ELSE LET ring_size == Head(ssr)
             present   == IF ring_size \in DOMAIN ring_sizes THEN ring_sizes
                          ELSE [k \in DOMAIN ring_sizes \cup {ring_size} |->
                                   IF k = ring_size THEN 0 ELSE ring_sizes[k]]
         IN  CountRingSizes(Tail(ssr), [present EXCEPT ![ring_size] = @ + 1])

\* A faulty variant: a ring larger than max_ring_size is dropped instead of counted
\* under its own key.
RingSizesDropLarge(ssr, max) ==
    LET keys == IF max < 0 THEN {} ELSE 3..max
    IN  [k \in keys |-> Cardinality({i \in 1..Len(ssr) : ssr[i] = k})]

\* ring_sizes after the loop, from {} or {3: 0, ..., max_ring_size: 0}.
RingSizes(ssr, max) ==
    CountRingSizes(ssr, IF max < 0 THEN <<>> ELSE [k \in 3..max |-> 0])

\* A faulty variant: the bond type is tested before the aromatic flag.
BondKeyTypeFirst(bond) ==
    IF bond.type = "SINGLE" THEN "single"
    ELSE IF bond.type = "DOUBLE" THEN "double"
    ELSE IF bond.type = "TRIPLE" THEN "triple"
    ELSE IF bond.aromatic THEN "aromatic"
    ELSE None

\* The key of bond_counts one bond increments, None when it increments none.
BondKey(bond) ==
    IF bond.aromatic THEN "aromatic"
    ELSE IF bond.type = "SINGLE" THEN "single"
    ELSE IF bond.type = "DOUBLE" THEN "double"
    ELSE IF bond.type = "TRIPLE" THEN "triple"
    ELSE None

RECURSIVE CountBonds(_, _)
\* The loop over mol.GetBonds().
CountBonds(bonds, bond_counts) ==
    IF bonds = <<>> THEN bond_counts
    ELSE LET key == BondKey(Head(bonds))
         IN  CountBonds(Tail(bonds),
                        IF key = None THEN bond_counts
                        ELSE [bond_counts EXCEPT ![key] = @ + 1])

\* The result dictionary: ring_count, the keys R<k> (the function R, from the
\* ring sizes k that have a key to their counts) and the four <type>_bond keys.
count_rings_and_bonds(m, max) ==
    LET bond_counts ==
            CountBonds(m.bonds, [single |-> 0, double |-> 0, triple |-> 0, aromatic |-> 0])
    IN  [ring_count    |-> Len(m.rings),
         R             |-> RingSizes(m.rings, max),
         single_bond   |-> bond_counts.single,
         double_bond   |-> bond_counts.double,
         triple_bond   |-> bond_counts.triple,
         aromatic_bond |-> bond_counts.aromatic]

\* Bounds and inputs of count_rings_and_bonds' specification.
MaxRings == 2
MaxBonds == 2
MaxRingSizeArg == 4
\* Ring sizes run to one above the largest max_ring_size argument.
RingLens == 3..(MaxRingSizeArg + 1)
\* A bond flagged aromatic has type AROMATIC, or SINGLE or DOUBLE when the
\* molecule was kekulized with its flags kept; another bond has any other type.
Bonds ==
    [aromatic : {TRUE}, type : {"AROMATIC", "SINGLE", "DOUBLE"}]
        \cup [aromatic : {FALSE}, type : BondTypes \ {"AROMATIC"}]
AromaticBond == [aromatic |-> TRUE, type |-> "AROMATIC"]
BenzeneMol == [rings |-> <<6>>, bonds |-> [k \in 1..6 |-> AromaticBond]]
Mols ==
    [rings : SeqsUpTo(RingLens, MaxRings), bonds : SeqsUpTo(Bonds, MaxBonds)]
        \cup {BenzeneMol}

InitMol ==
    /\ pc = "count"
    /\ mol \in Mols
    /\ max_ring_size \in -1..MaxRingSizeArg
    /\ counts = None
    /\ smi = None /\ tokens = None
    /\ s = None /\ parsed_float = None
    /\ filename = None /\ npscorer_model = None /\ empty_mol_ok = FALSE /\ result = None
    /\ xyz_dir = <<>> /\ order = <<>> /\ file_idx = 0 /\ parsed_xyz = <<>>
    /\ qm9_df = None /\ pass1_df = None

CallCountRingsAndBonds ==
    /\ pc = "count"
    /\ counts' = count_rings_and_bonds(mol, max_ring_size)
    /\ pc' = "returned"
    /\ UNCHANGED <<mol, max_ring_size, tokVars, floatVars, xyzVars, npscorer_model,
                   empty_mol_ok, loopVars>>

NextMol == CallCountRingsAndBonds

SpecMol == InitMol /\ [][NextMol]_vars

(***************************************************************************)
(* Claims about count_rings_and_bonds (checked under SpecMol)              *)
(***************************************************************************)

RECURSIVE SumOver(_, _)
\* The sum of f over the finite set S of its domain.
SumOver(f, S) ==
    IF S = {} THEN 0
    ELSE LET k == CHOOSE x \in S : TRUE IN f[k] + SumOver(f, S \ {k})

NumRingsOfSize(m, k) == Cardinality({i \in 1..Len(m.rings) : m.rings[i] = k})

\* C7: ring_count is the number of SSSR rings; with max_ring_size >= 3 every
\* R3..R<max_ring_size> is a key; every key counts the rings of its size, a ring
\* above the maximum under its own key; the R<k> values sum to ring_count.
C7_RingBuckets ==
    pc = "returned" =>
        /\ counts.ring_count = Len(mol.rings)
        /\ max_ring_size >= 3 => 3..max_ring_size \subseteq DOMAIN counts.R
        /\ \A i \in 1..Len(mol.rings) : mol.rings[i] \in DOMAIN counts.R
        /\ \A k \in DOMAIN counts.R : counts.R[k] = NumRingsOfSize(mol, k)
        /\ SumOver(counts.R, DOMAIN counts.R) = counts.ring_count
        /\ mol = BenzeneMol => counts.ring_count = 1 /\ counts.R[6] = 1

\* C7 witness: a ring larger than max_ring_size >= 3, counted under its own key
\* next to the zero-filled keys.
C7_Witness ==
    /\ pc = "returned"
    /\ max_ring_size >= 3
    /\ \E k \in DOMAIN counts.R : k > max_ring_size /\ counts.R[k] >= 1
    /\ \E k \in 3..max_ring_size : counts.R[k] = 0

NumBonds(m, P(_)) == Cardinality({i \in 1..Len(m.bonds) : P(m.bonds[i])})

\* C8: each bond is counted under at most one key: an aromatic bond under
\* aromatic_bond whatever its type, another bond under the key of its type; the
\* four counts sum to at most the number of bonds, and to it when every bond is
\* aromatic, single, double or triple.
C8_BondBuckets ==
    pc = "returned" =>
        LET IsAro(b) == b.aromatic
            IsSingle(b) == ~b.aromatic /\ b.type = "SINGLE"
            IsDouble(b) == ~b.aromatic /\ b.type = "DOUBLE"
            IsTriple(b) == ~b.aromatic /\ b.type = "TRIPLE"
            IsOther(b)  == ~b.aromatic /\ b.type \notin {"SINGLE", "DOUBLE", "TRIPLE"}
            total == counts.single_bond + counts.double_bond + counts.triple_bond
                        + counts.aromatic_bond
        IN  /\ counts.aromatic_bond = NumBonds(mol, IsAro)
            /\ counts.single_bond = NumBonds(mol, IsSingle)
            /\ counts.double_bond = NumBonds(mol, IsDouble)
            /\ counts.triple_bond = NumBonds(mol, IsTriple)
            /\ total <= Len(mol.bonds)
            /\ NumBonds(mol, IsOther) = 0 => total = Len(mol.bonds)
            /\ mol = BenzeneMol =>
                  /\ counts.aromatic_bond = 6
                  /\ counts.single_bond = 0
                  /\ counts.double_bond = 0
                  /\ counts.triple_bond = 0

\* C8 witness: a bond flagged aromatic whose type is SINGLE, counted as aromatic
\* only.
C8_Witness ==
    /\ pc = "returned"
    /\ \E i \in 1..Len(mol.bonds) : mol.bonds[i].aromatic /\ mol.bonds[i].type = "SINGLE"
    /\ counts.aromatic_bond >= 1
    /\ counts.single_bond = 0


(***************************************************************************)
(* parse_xyz                                                               *)
(*                                                                         *)
(* A file is the sequence of its lines, a line the sequence of its         *)
(* whitespace-separated fields (line.split()), a field a string.           *)
(***************************************************************************)

\* The chemistry toolkit, by its results on the SMILES strings the model's files
\* hold. CanonSmiles raises on a string that is no SMILES; the empty string is
\* the empty molecule.
SmiOCC == <<"O", "C", "C">>
SmiC == <<"C">>

CanonSmiles(str) ==
    IF str = <<>> THEN Returned(<<>>)
    ELSE IF str \in {SmiOCC, CCO} THEN Returned(CCO)
    ELSE IF str = SmiC THEN Returned(SmiC)
    ELSE IF str = Benzene THEN Returned(Benzene)
    ELSE Raised("ArgumentError")

SingleBond == [aromatic |-> FALSE, type |-> "SINGLE"]

\* MolFromSmiles of a canonical SMILES, as count_rings_and_bonds reads it.
MolFromSmiles(canon) ==
    IF canon = CCO THEN [rings |-> <<>>, bonds |-> <<SingleBond, SingleBond>>]
    ELSE IF canon = Benzene THEN BenzeneMol
    ELSE [rings |-> <<>>, bonds |-> <<>>]

\* A descriptor of the toolkit: a value that depends on the molecule only.
Descriptor(name, canon) == <<name, canon>>

scalar_property_labels ==
    <<"A", "B", "C", "mu", "alpha", "homo", "lumo", "gap", "r2", "zpve", "u0", "u",
      "h", "g", "cv">>

\* int(line): the line holds one field, a signed run of digits.
int(line) == IF Len(line) # 1 THEN Raised("ValueError") ELSE SignedDigits(line[1])

\* One more element of a list comprehension: the first failure raises.
Cons(x, rest) ==
    IF ~x.ok THEN x
    ELSE IF ~rest.ok THEN rest
    ELSE Returned(<<x.val>> \o rest.val)

RECURSIVE MapFloat(_, _)
\* [f(i) for i in fields] for f one of float (standard) and parse_float.
MapFloat(fields, standard) ==
    IF fields = <<>> THEN Returned(<<>>)
    ELSE Cons(IF standard THEN float(Head(fields)) ELSE parse_float(Head(fields)),
              MapFloat(Tail(fields), standard))

\* The locals of parse_xyz before the file is read.
Locals ==
    [num_atoms |-> 0, scalar_properties |-> <<>>, atomic_symbols |-> <<>>,
     xyz |-> <<>>, charges |-> <<>>,
     harmonic_vibrational_frequencies |-> <<>>, smiles |-> <<>>, inchi |-> <<>>]

\* The three appends of an atom line, the four numbers parsed (or the parse
\* raised).
AppendAtom(st, atom_symbol, nums) ==
    IF ~nums.ok THEN nums
    ELSE Returned([st EXCEPT
             !.atomic_symbols = Append(@, atom_symbol),
             !.xyz = Append(@, SubSeq(nums.val, 1, 3)),
             !.charges = Append(@, nums.val[4])])

\* st with the local named by field set to a value computed without error, the
\* exception otherwise.
Assign(st, field, value) ==
    IF value.ok THEN Returned([st EXCEPT ![field] = value.val]) ELSE value

\* The branch of an atom line: the line unpacked into five fields.
AtomLine(line, st) ==
    IF Len(line) # 5 THEN Raised("ValueError")
    ELSE AppendAtom(st, line[1], MapFloat(Tail(line), FALSE))

\* line.split()[0]
FirstField(line) == IF line = <<>> THEN Raised("IndexError") ELSE Returned(line[1])

\* The body of the loop over the lines, for line number line_num (from 0).
ReadLine(line, line_num, st) ==
    IF line_num = 0 THEN
        Assign(st, "num_atoms", int(line))
    ELSE IF line_num = 1 THEN
        Assign(st, "scalar_properties", MapFloat(SubSeq(line, 3, Len(line)), TRUE))
    ELSE IF 2 <= line_num /\ line_num <= 1 + st.num_atoms THEN
        AtomLine(line, st)
    ELSE IF line_num = st.num_atoms + 2 THEN
        Assign(st, "harmonic_vibrational_frequencies", MapFloat(line, TRUE))
    ELSE IF line_num = st.num_atoms + 3 THEN
        Assign(st, "smiles", FirstField(line))
    ELSE IF line_num = st.num_atoms + 4 THEN
        Assign(st, "inchi", FirstField(line))
    ELSE Returned(st)

RECURSIVE ReadLines(_, _, _)
\* for line_num, line in enumerate(f): the locals after the last line, or the
\* first exception. st is the outcome of the lines before line_num.
ReadLines(lines, line_num, st) ==
    IF ~st.ok \/ line_num >= Len(lines) THEN st
    ELSE ReadLines(lines, line_num + 1, ReadLine(lines[line_num + 1], line_num, st.val))

\* dict(zip(scalar_property_labels, scalar_properties)): the shorter of the two
\* decides the number of keys.
ZipScalars(values) ==
    LET n == Min(Len(scalar_property_labels), Len(values))
    IN  [l \in {scalar_property_labels[i] : i \in 1..n} |->
            values[CHOOSE i \in 1..n : scalar_property_labels[i] = l]]

\* A faulty variant: the natural-product score computed whatever the model argument.
HasNpScoreAlways(model) == TRUE

\* if npscorer_model is not None
HasNpScore(model) == model # None

\* The record of a file read without error (read is the outcome of reading
\* it, an exception of which is passed on): the parsed fields, the scalar
\* properties (kept together under scalars) and the toolkit's descriptors.
\* scorers_accept_empty says whether the descriptor functions of the toolkit
\* build at hand return on the empty molecule or raise.
Describe(read, max, model, scorers_accept_empty) ==
    IF ~read.ok THEN read
    ELSE
    LET st == read.val
        canon == CanonSmiles(st.smiles)
    IN  IF ~canon.ok THEN canon
        ELSE IF canon.val = <<>> /\ ~scorers_accept_empty THEN Raised("ZeroDivisionError")
        ELSE LET fields ==
                     [num_atoms |-> st.num_atoms,
                      atomic_symbols |-> st.atomic_symbols,
                      pos |-> st.xyz,
                      charges |-> st.charges,
                      harmonic_oscillator_frequencies |-> st.harmonic_vibrational_frequencies,
                      smiles |-> st.smiles,
                      inchi |-> st.inchi,
                      scalars |-> ZipScalars(st.scalar_properties),
                      canonical_smiles |-> canon.val,
                      logP |-> Descriptor("logP", canon.val),
                      qed |-> Descriptor("qed", canon.val),
                      sa_score |-> Descriptor("sa_score", canon.val),
                      rings_and_bonds |->
                          count_rings_and_bonds(MolFromSmiles(canon.val), max)]
             IN  Returned(IF HasNpScore(model)
                          THEN fields @@ [np_score |-> Descriptor("np_score", canon.val)]
                          ELSE fields)

\* parse_xyz for array_format = 'np', the one value the notebook passes: the
\* arrays are the lists they wrap.
parse_xyz(lines, max, model, scorers_accept_empty) ==
    Describe(ReadLines(lines, 0, Returned(Locals)), max, model, scorers_accept_empty)

\* The constants of the parsing cell.
MAX_RING_SIZE == 9
fscore == "fscore"

\* Bounds and inputs of parse_xyz's specification.
MaxAtoms == 1

DigitChar(d) ==
    CASE d = 0 -> "0" [] d = 1 -> "1" [] d = 2 -> "2" [] d = 3 -> "3" [] d = 4 -> "4"
      [] d = 5 -> "5" [] d = 6 -> "6" [] d = 7 -> "7" [] d = 8 -> "8" [] d = 9 -> "9"

\* str(n) for -99 <= n <= 99
IntStr(n) ==
    LET a == IF n < 0 THEN 0 - n ELSE n
        ds == IF a >= 10 THEN <<DigitChar(a \div 10), DigitChar(a % 10)>>
              ELSE <<DigitChar(a)>>
    IN  IF n < 0 THEN <<"-">> \o ds ELSE ds

\* Line 0: an atom count from -1 to MaxAtoms, or a line that is no integer.
HeaderLines == {<<IntStr(n)>> : n \in -1..MaxAtoms} \cup {<<SmiC>>}

\* Line 1: "gdb <id>" and k scalar values 1, 2, ..., k.
PropertyLine(k) == << <<"g", "d", "b">>, <<"1">> >> \o [i \in 1..k |-> IntStr(i)]
NumLabels == Len(scalar_property_labels)
PropertyLines ==
    {PropertyLine(k) : k \in (NumLabels - 1)..(NumLabels + 1)}
        \cup {<< <<"g", "d", "b">> >>}

AtomLine5 ==
    <<SmiC, <<"-", "1", ".", "5">>, <<"2", "*", "^", "-", "1">>, <<"1">>, <<"-", ".", "5">> >>
AtomLine4 == SubSeq(AtomLine5, 1, 4)
FrequencyLine == << <<"1", ".", "5">>, <<"2">> >>
SmilesLine == <<SmiOCC, SmiOCC>>
InchiLine == << <<"I", "n", "C", "h", "I">> >>
BlankLine == <<>>
BodyLines == {AtomLine5, AtomLine4, FrequencyLine, SmilesLine, InchiLine}

\* The files: every header, every property line and every sequence of at most
\* MaxAtoms + 3 further lines; the files cut inside their first two lines; and
\* the files of no atom with one of their lines blank.
Files ==
    {<<h, p>> \o b : h \in HeaderLines, p \in PropertyLines,
                     b \in SeqsUpTo(BodyLines, MaxAtoms + 3)}
        \cup {<<>>} \cup {<<h>> : h \in HeaderLines}
        \cup {[<<<<IntStr(0)>>, PropertyLine(NumLabels), FrequencyLine, SmilesLine,
                 InchiLine>> EXCEPT ![k] = BlankLine] : k \in 1..5}

InitXyz ==
    /\ pc = "parse_xyz"
    /\ filename \in Files
    /\ npscorer_model \in {None, fscore}
    /\ empty_mol_ok \in BOOLEAN
    /\ max_ring_size = MAX_RING_SIZE
    /\ result = None
    /\ smi = None /\ tokens = None
    /\ s = None /\ parsed_float = None
    /\ mol = None /\ counts = None
    /\ xyz_dir = <<>> /\ order = <<>> /\ file_idx = 0 /\ parsed_xyz = <<>>
    /\ qm9_df = None /\ pass1_df = None

CallParseXyz ==
    /\ pc = "parse_xyz"
    /\ result' = parse_xyz(filename, max_ring_size, npscorer_model, empty_mol_ok)
    /\ pc' = IF result'.ok THEN "returned" ELSE "raised"
    /\ UNCHANGED <<filename, npscorer_model, empty_mol_ok, max_ring_size, tokVars,
                   floatVars, molVars, loopVars>>

NextXyz == CallParseXyz

SpecXyz == InitXyz /\ [][NextXyz]_vars


(***************************************************************************)
(* Claims about parse_xyz (checked under SpecXyz)                          *)
(***************************************************************************)

\* C2: every record parse_xyz returns has num_atoms == len(atomic_symbols) ==
\* len(pos) == len(charges). Stated for the records whose SMILES line was read,
\* so that nothing rests on what the toolkit does with the empty molecule.
C2_AtomCountsAgree ==
    (pc = "returned" /\ result.val.smiles # <<>>) =>
        /\ result.val.num_atoms = Len(result.val.atomic_symbols)
        /\ result.val.num_atoms = Len(result.val.pos)
        /\ result.val.num_atoms = Len(result.val.charges)

\* The deviations from the layout that the claim C3 lists, for a file whose
\* line 0 is the integer n.
TooFewLines(lines, n) == Len(lines) < n + 5
BadAtomLine(lines, n) ==
    \E line_num \in 2..(n + 1) : line_num < Len(lines) /\ Len(lines[line_num + 1]) # 5
BadPropertyLine(lines) ==
    Len(lines) >= 2 /\ Len(lines[2]) < 2 + Len(scalar_property_labels)

\* C3: parse_xyz raises, and returns no record, for a file with fewer than N+5
\* lines, with an atom line that has not exactly 5 fields, or with a property
\* line short of its 15 values. Stated for the files whose SMILES line is
\* there, so that nothing rests on what the toolkit does with the empty molecule.
C3_MalformedFileRaises ==
    (pc \in {"returned", "raised"} /\ filename # <<>> /\ int(filename[1]).ok) =>
        LET n == int(filename[1]).val
        IN  (/\ n >= 0
             /\ Len(filename) >= n + 4
             /\ \/ TooFewLines(filename, n)
                \/ BadAtomLine(filename, n)
                \/ BadPropertyLine(filename)) => ~result.ok

\* C10: the record has the key np_score exactly when a scoring model was given,
\* and its other keys are those, with the same values, of the record the same
\* file gives with the other choice of the model argument.
C10_NpScoreOptional ==
    pc = "returned" =>
        LET other == parse_xyz(filename, max_ring_size,
                               IF npscorer_model = None THEN fscore ELSE None,
                               empty_mol_ok)
            keys == DOMAIN result.val \ {"np_score"}
        IN  /\ ("np_score" \in DOMAIN result.val) <=> (npscorer_model # None)
            /\ {"logP", "qed", "sa_score", "rings_and_bonds", "canonical_smiles",
                "num_atoms"} \subseteq keys
            /\ other.ok =>
                  /\ DOMAIN other.val \ {"np_score"} = keys
                  /\ \A k \in keys : other.val[k] = result.val[k]
                  /\ ("np_score" \in DOMAIN other.val) <=> (npscorer_model = None)

\* C10 witness: a well-formed file parsed without a scoring model: a record
\* with the derived descriptors and no np_score.
C10_Witness ==
    /\ pc = "returned"
    /\ npscorer_model = None
    /\ "np_score" \notin DOMAIN result.val
    /\ result.val.canonical_smiles = CCO
    /\ result.val.num_atoms = 1
    /\ result.val.inchi # <<>>


(***************************************************************************)
(* The parsing loop over xyz_dir_path and the table built from its list    *)
(***************************************************************************)

Orders(n) == {f \in [1..n -> 1..n] : \A i, j \in 1..n : f[i] = f[j] => i = j}

RECURSIVE InsertSorted(_, _)
InsertSorted(x, sq) ==
    IF sq = <<>> THEN <<x>>
    ELSE IF x <= Head(sq) THEN <<x>> \o sq
    ELSE <<Head(sq)>> \o InsertSorted(x, Tail(sq))

RECURSIVE sorted(_)
\* sorted(os.listdir(xyz_dir_path)): the file names, here the numbers 1..n, in
\* increasing order whatever the order of the listing.
sorted(listing) ==
    IF listing = <<>> THEN <<>> ELSE InsertSorted(Head(listing), sorted(Tail(listing)))

\* A faulty variant: every row of the list is the one dictionary, reused by each call
\* and overwritten by the last.
append_aliased(list, parsed) == [i \in 1..(Len(list) + 1) |-> parsed]

\* parsed_xyz.append(parsed)
append(list, parsed) == Append(list, parsed)

NoTable == [built |-> FALSE, rows |-> <<>>]

\* pd.DataFrame(data=parsed_xyz): one row per record of the list.
DataFrame(data) == [built |-> TRUE, rows |-> data]

\* Bounds and inputs of the loop's specifications.
MaxFiles == 3

FileOf(n, atoms, smiles_line) ==
    <<<<IntStr(n)>>, PropertyLine(NumLabels)>> \o atoms
        \o <<FrequencyLine, smiles_line, InchiLine>>
GoodFileA == FileOf(1, <<AtomLine5>>, SmilesLine)
GoodFileB == FileOf(2, <<AtomLine5, AtomLine5>>, <<Benzene, Benzene>>)
MalformedFile == FileOf(1, <<AtomLine4>>, SmilesLine)
BadSmilesFile == FileOf(1, <<AtomLine5>>, InchiLine)
DirFiles == {GoodFileA, GoodFileB, MalformedFile, BadSmilesFile}

\* The directory: xyz_dir[name] is the content of the file called name, the
\* names being 1..n.
Init ==
    /\ pc = "parsing"
    /\ xyz_dir \in SeqsUpTo(DirFiles, MaxFiles)
    /\ \E listing \in Orders(Len(xyz_dir)) : order = sorted(listing)
    /\ empty_mol_ok = FALSE   \* no file of DirFiles lacks its SMILES line
    /\ npscorer_model = fscore
    /\ max_ring_size = MAX_RING_SIZE
    /\ file_idx = 0
    /\ parsed_xyz = <<>>
    /\ qm9_df = NoTable
    /\ pass1_df = NoTable
    /\ filename = None /\ result = None
    /\ smi = None /\ tokens = None
    /\ s = None /\ parsed_float = None
    /\ mol = None /\ counts = None

\* One iteration of the loop: the next file of the order is parsed and its
\* record appended; an exception of parse_xyz leaves the loop and the cell.
ParseNext ==
    /\ pc = "parsing"
    /\ file_idx < Len(order)
    /\ \E parsed \in {parse_xyz(xyz_dir[order[file_idx + 1]], max_ring_size,
                                 npscorer_model, empty_mol_ok)} :
           IF parsed.ok
           THEN /\ parsed_xyz' = append(parsed_xyz, parsed.val)
                /\ file_idx' = file_idx + 1
                /\ pc' = "parsing"
           ELSE /\ pc' = "raised"
                /\ UNCHANGED <<parsed_xyz, file_idx>>
    /\ UNCHANGED <<xyz_dir, order, qm9_df, pass1_df, npscorer_model, empty_mol_ok,
                   max_ring_size, xyzVars, tokVars, floatVars, molVars>>

\* The loop ends when every file was visited.
EndLoop ==
    /\ pc = "parsing"
    /\ file_idx = Len(order)
    /\ pc' = "parsed"
    /\ UNCHANGED <<loopVars, npscorer_model, empty_mol_ok, max_ring_size, xyzVars,
                   tokVars, floatVars, molVars>>

\* qm9_df = pd.DataFrame(data=parsed_xyz), the cell after the loop.
MakeDataFrame ==
    /\ pc = "parsed"
    /\ qm9_df' = DataFrame(parsed_xyz)
    /\ pc' = "done"
    /\ UNCHANGED <<xyz_dir, order, file_idx, parsed_xyz, pass1_df, npscorer_model,
                   empty_mol_ok, max_ring_size, xyzVars, tokVars, floatVars, molVars>>

Next == ParseNext \/ EndLoop \/ MakeDataFrame

Spec == Init /\ [][Next]_vars

\* The same cells run a second time over the same directory, the files visited
\* in another order: the first table is kept for the comparison.
RunInOtherOrder ==
    /\ pc = "done"
    /\ ~pass1_df.built
    /\ pass1_df' = qm9_df
    /\ qm9_df' = NoTable
    /\ order' \in Orders(Len(xyz_dir))
    /\ parsed_xyz' = <<>>
    /\ file_idx' = 0
    /\ pc' = "parsing"
    /\ UNCHANGED <<xyz_dir, npscorer_model, empty_mol_ok, max_ring_size, xyzVars,
                   tokVars, floatVars, molVars>>

NextOrder == ParseNext \/ EndLoop \/ MakeDataFrame \/ RunInOtherOrder

SpecOrder == Init /\ [][NextOrder]_vars

(***************************************************************************)
(* Claims about the parsing loop                                           *)
(***************************************************************************)

\* The number of files of the directory that parse_xyz parses without error.
NumParseable ==
    Cardinality({n \in 1..Len(xyz_dir) :
        parse_xyz(xyz_dir[n], max_ring_size, npscorer_model, empty_mol_ok).ok})

\* C1: the batch skips every file whose parsing fails and runs to the end: it
\* never stops on an exception, and its table has one row per file that
\* parses (checked under Spec).
C1_SkipAndContinue ==
    /\ pc # "raised"
    /\ qm9_df.built => Len(qm9_df.rows) = NumParseable

RECURSIVE BagOf(_)
\* The rows of a list as a multiset.
BagOf(rows) ==
    IF rows = <<>> THEN EmptyBag ELSE BagOf(Tail(rows)) (+) SetToBag({Head(rows)})

====
